---- MODULE Spec2Model ----
(***************************************************************************)
(* GlobalTags plugin (src/plugins/globalTags/index.tsx): the tag client    *)
(* (fetchTag, fetchTags, createTag, deleteTag), the settings object that   *)
(* holds the tag cache, start(), and the /globaltags sub-commands, against *)
(* a tag server and other clients of that server.                          *)
(*                                                                         *)
(* JavaScript values: `undefined` is the record Undefined; a tag is a      *)
(* record [name, message, owner_id]; a chat text is a sequence of strings. *)
(* An async function runs atomically from one network await to the next:   *)
(* one action starts a command and runs it up to its first fetch(), one    *)
(* action lets the server answer a request in flight, one action resumes   *)
(* the command on the answer.                                              *)
(***************************************************************************)
EXTENDS Integers, Sequences, FiniteSets, TLC

(* ------------------------------ bounds -------------------------------- *)
MaxCmds == 2
MaxOther == 1
MaxPieces == 5

Names == {"a", "b"}
Messages == {"m1", "m2"}
Users == {"u1", "u2"}
UserArgs == Users \cup {"u3"}
Slots == {1, 2}

(* ------------------------------ values -------------------------------- *)
Undefined == [type |-> "undefined"]

Tag(n, m, o) == [name |-> n, message |-> m, owner_id |-> o]

TagsNamed(n) == {Tag(n, m, o) : m \in Messages, o \in Users}

\* what the other clients of the server write
OtherMessages == {"m1"}
OtherUsers == {"u2"}

CurrentUserId == "u1"

Ephemeral == 64

NoReply == [status |-> "none"]

NoOut == [via |-> "none"]

\* sendBotMessage(ctx.channel.id, {content, flags}): a local bot message
BotMessage(content, flags) ==
    [via |-> "sendBotMessage", content |-> content, flags |-> flags]

\* `return {content}` from execute: the host sends it as a normal message
ReturnContent(content) == [via |-> "return", content |-> content, flags |-> 0]

VARIABLES
    server,        \* the tag server: name -> tag or Undefined
    settingsStore, \* settings.store.serverUrl / serverKey, "" when not set
    tagsCache,     \* settings.store.tagsCache: [proto, entries]
    cmds,          \* the command invocations in progress, by slot
    done,          \* the command invocation that has just finished, until
                   \* the host has shown its response
    startup,       \* start(): [pc, net, reply, notices]
    invoked,       \* number of commands invoked so far
    others,        \* number of steps other clients have taken
    lastSeen,      \* name -> last tag this client got from a GET or wrote
    invalidated,   \* name -> a create or delete of it succeeded and no GET
                   \* for it was sent since
    prompt,        \* the prompt sub-command: [pc, send, reply, generated, out]
    inlinePrefix,  \* the inline-prefix flag of the configuration
    outbox         \* the chat messages that reached the normal send

vars == <<server, settingsStore, tagsCache, cmds, done, startup, invoked,
          others, lastSeen, invalidated, prompt, inlinePrefix, outbox>>

tagVars == <<server, tagsCache, cmds, done, startup, invoked, others, lastSeen,
             invalidated>>

chatVars == <<inlinePrefix, outbox>>

(* ------------------------- settings.tagsCache -------------------------- *)
NoEntries == [n \in Names |-> Undefined]

\* the cache as a Map instance
TagsCacheAsMap == [proto |-> "Map", entries |-> NoEntries]

\* tagsCache: { type: OptionType.CUSTOM, default: {} as Map<string, TagResponse> }
\* The default is an object literal; the cast changes its static type only.
TagsCacheDefault == [proto |-> "Object", entries |-> NoEntries]

\* obj.method is a function: has, get, set and delete are methods of
\* Map.prototype; Object.prototype has none of them, so on a plain object
\* obj.has is undefined and calling it throws a TypeError.
IsFunction(obj, method) ==
    /\ obj.proto = "Map"
    /\ method \in {"has", "get", "set", "delete"}

HasOwnerId(v) == v # Undefined /\ "owner_id" \in DOMAIN v

(* ------------------------------ fetchTag ------------------------------- *)
\* fetchTag up to its first await: [await, value]
FetchTagBegin(cache, tagName) ==
    IF ~IsFunction(cache, "has")
    THEN [await |-> FALSE, value |-> Undefined]       \* TypeError, caught
    ELSE IF cache.entries[tagName] # Undefined
    THEN [await |-> FALSE, value |-> cache.entries[tagName]]
    ELSE [await |-> TRUE, value |-> Undefined]         \* GET is sent

\* fetchTag from the answer to its GET: [value, cache]
FetchTagEnd(cache, tagName, reply) ==
    IF reply.status # "ok"
    THEN [value |-> Undefined, cache |-> cache]        \* !response.ok, or thrown
    ELSE IF ~IsFunction(cache, "set")
    THEN [value |-> Undefined, cache |-> cache]        \* TypeError, caught
    ELSE [value |-> reply.body,
          cache |-> [cache EXCEPT !.entries[tagName] = reply.body]]

(* ------------------------------ fetchTags ------------------------------ *)
\* fetchTags keeping the tags of the other owners
FetchTagsEndOthers(reply, userId) ==
    IF reply.status # "ok"
    THEN <<>>
    ELSE IF userId # ""
    THEN LET Mine(tag) == tag.owner_id # userId IN SelectSeq(reply.body, Mine)
    ELSE reply.body

\* fetchTags from the answer to its GET: the list it returns.
\* userId is "" when the caller passes none: `if (userId)` is then false.
FetchTagsEnd(reply, userId) ==
    IF reply.status # "ok"
    THEN <<>>
    ELSE IF userId # ""
    THEN LET Mine(tag) == tag.owner_id = userId IN SelectSeq(reply.body, Mine)
    ELSE reply.body

(* ------------------------ deleteTag / createTag ------------------------ *)
\* a catch that reports the failure without the error's text
CaughtNoText(err) == [success |-> FALSE]

\* A thrown error as createTag and deleteTag report it: String(err)
Caught(err) == [success |-> FALSE, error |-> err]

\* deleteTag from the answer to its DELETE: [result, cache]
DeleteTagEnd(cache, tagName, reply) ==
    IF reply.status # "ok"
    THEN [result |-> Caught("Error"), cache |-> cache]
    ELSE IF reply.body.success
    THEN IF ~IsFunction(cache, "delete")
         THEN [result |-> Caught("TypeError"), cache |-> cache]
         ELSE [result |-> reply.body,
               cache |-> [cache EXCEPT !.entries[tagName] = Undefined]]
    ELSE [result |-> reply.body, cache |-> cache]

\* createTag from the answer to its POST: [result, cache]
CreateTagEnd(cache, tagName, reply) ==
    IF reply.status # "ok"
    THEN [result |-> Caught("Error"), cache |-> cache]
    ELSE IF reply.body.success
    THEN IF ~IsFunction(cache, "delete")
         THEN [result |-> Caught("TypeError"), cache |-> cache]
         ELSE [result |-> reply.body,
               cache |-> [cache EXCEPT !.entries[tagName] = Undefined]]
    ELSE [result |-> reply.body, cache |-> cache]

\* result.error ?? "Unknown error"
ErrorText(result) ==
    IF "error" \in DOMAIN result THEN result.error ELSE "Unknown error"

(* ------------------------- the command handler ------------------------- *)
\* A command invocation: the sub-command and its options, where it stands
\* (pc, net, reply), execute's existingTag, its response (out), and a record
\* of the invocation: the requests sent, and at the time of the invocation the
\* server's tag of that name (srv0), whether the cache had an entry of that
\* name (hit), and the tag this client's last successful create of that name
\* wrote if no request for the name succeeded or was sent since (own0).
IdleCmd ==
    [kind |-> "none", tagName |-> "", tagMessage |-> "", userId |-> "",
     pc |-> "idle", net |-> "none", reply |-> NoReply,
     existingTag |-> Undefined, sent |-> {}, srv0 |-> Undefined,
     hit |-> FALSE, own0 |-> Undefined, out |-> NoOut]

TagKinds == {"create", "delete", "show", "who"}

Finish(rec, out) ==
    [rec EXCEPT !.pc = "done", !.net = "none", !.out = out]

Request(rec, pc, method) ==
    [rec EXCEPT !.pc = pc, !.net = "sent", !.reply = NoReply,
                !.sent = @ \cup {method}]

\* execute, from the value fetchTag returned to the next await or the end
AfterFetchTag(rec, tag) ==
    LET r == [rec EXCEPT !.existingTag = tag] IN
    CASE rec.kind = "create" ->
           IF HasOwnerId(tag)
           THEN Finish(r, BotMessage(<<"already exists", rec.tagName>>, 0))
           ELSE Request(r, "createTag", "POST")
      [] rec.kind = "delete" ->
           IF ~HasOwnerId(tag)
           THEN Finish(r, BotMessage(<<"does not exist", rec.tagName>>, 0))
           ELSE IF tag.owner_id # CurrentUserId
           THEN Finish(r, BotMessage(<<"is owned by", tag.owner_id>>, 0))
           ELSE Request(r, "deleteTag", "DELETE")
      [] rec.kind = "show" ->
           IF ~HasOwnerId(tag)
           THEN Finish(r, BotMessage(<<"does not exist", rec.tagName>>,
                                     Ephemeral))
           ELSE Finish(r, ReturnContent(<<tag.message>>))
      [] rec.kind = "who" ->
           IF ~HasOwnerId(tag)
           THEN Finish(r, BotMessage(<<"does not exist", rec.tagName>>,
                                     Ephemeral))
           ELSE Finish(r, BotMessage(<<"is owned by", tag.owner_id>>,
                                     Ephemeral))

\* execute case "create" / "delete", from the result of createTag / deleteTag
AfterWrite(rec, result) ==
    IF result.success
    THEN Finish(rec, BotMessage(
             <<IF rec.kind = "create" THEN "created successfully"
               ELSE "deleted successfully", rec.tagName>>, 0))
    ELSE Finish(rec, BotMessage(
             <<IF rec.kind = "create" THEN "Failed to create tag"
               ELSE "Failed to delete tag", ErrorText(result)>>, 0))

\* tagList: each name followed by a line break
RECURSIVE TagList(_)
TagList(tags) ==
    IF tags = <<>> THEN <<>>
    ELSE <<Head(tags).name, "\n">> \o TagList(Tail(tags))

\* execute case "list", from the list fetchTags returned
AfterFetchTags(rec, tags) ==
    IF Len(tags) = 0
    THEN Finish(rec, BotMessage(<<"No tags found for", rec.userId>>, Ephemeral))
    ELSE Finish(rec, BotMessage(TagList(tags), Ephemeral))

(* ---------------------- the tag server's answers ---------------------- *)
Present(srv) == {n \in Names : srv[n] # Undefined}

\* GET /tags answers a JSON array of the tags, in an order of the server's
ListBodies(srv) ==
    {b \in [1..Cardinality(Present(srv)) -> {srv[n] : n \in Present(srv)}] :
        \A i, j \in DOMAIN b : b[i] = b[j] => i = j}

Failed == {[reply |-> [status |-> st], server |-> server] :
              st \in {"notok", "throw"}}

\* success: false, with or without an error text; or no JSON at all
Rejected ==
    {[reply |-> [status |-> "ok", body |-> b], server |-> server] :
        b \in {[success |-> FALSE, error |-> "rejected"], [success |-> FALSE]}}
    \cup {[reply |-> [status |-> "throw"], server |-> server]}

Accepted(srv) ==
    [reply |-> [status |-> "ok", body |-> [success |-> TRUE]], server |-> srv]

\* the answers a request in flight can get, each with the server's next state;
\* requests built from an empty serverUrl do not reach the tag server
Answers(pc, tagName, tagMessage) ==
    LET reached == settingsStore.serverUrl # "" IN
    CASE pc = "fetchTag" ->
           Failed \cup
           {[reply |-> [status |-> "ok", body |-> server[n]], server |-> server] :
               n \in {x \in {tagName} : reached /\ server[x] # Undefined}}
      [] pc = "fetchTags" ->
           Failed \cup
           {[reply |-> [status |-> "ok", body |-> b], server |-> server] :
               b \in IF reached THEN ListBodies(server) ELSE {}}
      [] pc = "createTag" ->
           Rejected \cup
           {Accepted([server EXCEPT
                        ![n] = Tag(n, tagMessage, CurrentUserId)]) :
               n \in {x \in {tagName} : reached /\ server[x] = Undefined}}
      [] pc = "deleteTag" ->
           Rejected \cup
           {Accepted([server EXCEPT ![n] = Undefined]) :
               n \in {x \in {tagName} : reached /\ server[x] # Undefined}}

\* name is the tags' unique key; the tags are written with message m1 here
ServerStates(owners) ==
    {srv \in [Names -> {Undefined} \cup UNION {TagsNamed(n) : n \in Names}] :
        \A n \in Names :
            srv[n] \in {Undefined} \cup {Tag(n, "m1", o) : o \in owners}}

(* ------------------------------- actions ------------------------------- *)
IdlePrompt ==
    [pc |-> "idle", send |-> "omitted", reply |-> NoReply,
     generated |-> Undefined, out |-> NoOut]

InitWith(srv, stores) ==
    /\ server = srv
    /\ settingsStore \in stores
    /\ prompt = IdlePrompt
    /\ inlinePrefix = FALSE
    /\ outbox = {}
    /\ tagsCache = TagsCacheDefault
    /\ cmds = [c \in Slots |-> IdleCmd]
    /\ done = IdleCmd
    /\ startup = [pc |-> "idle", net |-> "none", reply |-> NoReply,
                  notices |-> {}]
    /\ invoked = 0
    /\ others = 0
    /\ lastSeen = NoEntries
    /\ invalidated = [n \in Names |-> FALSE]

\* the plugin is loaded; the server holds tags of other users
\* the settings with the tag server's or the generation endpoint's left unset
TagStores ==
    [serverUrl : {"", "url"}, serverKey : {"", "key"}, ollamaUrl : {"url"}]

GenStores == [serverUrl : {"url"}, serverKey : {"key"}, ollamaUrl : {"", "url"}]

Init == \E srv \in ServerStates(OtherUsers) : InitWith(srv, TagStores)

\* the plugin is loaded; the server holds tags of any users
InitList == \E srv \in ServerStates(Users) : InitWith(srv, TagStores)

\* start(), up to `await fetchTags()`
Start ==
    /\ done = IdleCmd
    /\ startup.pc = "idle"
    /\ LET notices ==
               {x \in {"server URL"} : settingsStore.serverUrl = ""}
               \cup {x \in {"server key"} : settingsStore.serverKey = ""}
           canFetch == notices = {}
       IN startup' = [startup EXCEPT
                        !.notices = notices,
                        !.pc = IF canFetch THEN "fetchTags" ELSE "done",
                        !.net = IF canFetch THEN "sent" ELSE "none"]
    /\ UNCHANGED <<server, settingsStore, tagsCache, cmds, done, invoked, others,
                   lastSeen, invalidated>>
    /\ UNCHANGED <<prompt, chatVars>>

\* the server answers start()'s GET /tags
DeliverStartup ==
    /\ done = IdleCmd
    /\ startup.net = "sent"
    /\ \E a \in Answers("fetchTags", "", "") :
           startup' = [startup EXCEPT !.net = "answered", !.reply = a.reply]
    /\ UNCHANGED <<server, settingsStore, tagsCache, cmds, done, invoked, others,
                   lastSeen, invalidated>>
    /\ UNCHANGED <<prompt, chatVars>>

\* tags.forEach(tag => settings.store.tagsCache.set(tag.name, tag))
RECURSIVE SetAll(_, _)
SetAll(entries, tags) ==
    IF tags = <<>> THEN entries
    ELSE SetAll([entries EXCEPT ![Head(tags).name] = Head(tags)], Tail(tags))

\* start(), from the list fetchTags returned to its end
ResumeStartup ==
    /\ done = IdleCmd
    /\ startup.net = "answered"
    /\ LET tags == FetchTagsEnd(startup.reply, "")
           throws == Len(tags) > 0 /\ ~IsFunction(tagsCache, "set")
       IN /\ startup' = [startup EXCEPT
                           !.pc = IF throws THEN "rejected" ELSE "done",
                           !.net = "none", !.reply = NoReply]
          /\ tagsCache' = IF throws THEN tagsCache
                          ELSE [tagsCache EXCEPT
                                  !.entries = SetAll(@, tags)]
          /\ lastSeen' = SetAll(lastSeen, tags)
    /\ UNCHANGED <<server, settingsStore, cmds, done, invoked, others,
                   invalidated>>
    /\ UNCHANGED <<prompt, chatVars>>

\* command c goes on as rec: a finished command leaves its slot
Settle(c, rec) ==
    /\ cmds' = [cmds EXCEPT ![c] = IF rec.pc = "done" THEN IdleCmd ELSE rec]
    /\ done' = IF rec.pc = "done" THEN rec ELSE done

\* /globaltags create | delete | show | who, with their options
Invocations ==
    {[kind |-> "create", tagName |-> n, tagMessage |-> m, userId |-> ""] :
        n \in Names, m \in Messages}
    \cup {[kind |-> k, tagName |-> n, tagMessage |-> "", userId |-> ""] :
        k \in {"delete", "show", "who"}, n \in Names}

\* /globaltags list, with its option
ListInvocations ==
    {[kind |-> "list", tagName |-> "", tagMessage |-> "", userId |-> u] :
        u \in UserArgs}

\* a new invocation of the command in slot c
Invoke(c, i) ==
    [IdleCmd EXCEPT !.kind = i.kind, !.tagName = i.tagName,
                    !.tagMessage = i.tagMessage, !.userId = i.userId,
                    !.srv0 = IF i.kind = "list" THEN Undefined
                             ELSE server[i.tagName],
                    !.hit = IF i.kind = "list" THEN FALSE
                            ELSE tagsCache.entries[i.tagName] # Undefined,
                    !.own0 = IF i.kind = "list" THEN Undefined
                             ELSE IF invalidated[i.tagName]
                             THEN lastSeen[i.tagName]
                             ELSE Undefined]

CanInvoke(c) ==
    /\ done = IdleCmd
    /\ startup.pc # "idle"
    /\ invoked < MaxCmds
    /\ cmds[c].pc = "idle"
    /\ \A d \in Slots : d < c => cmds[d].pc # "idle"

\* execute(args, ctx) for create, delete, show and who, up to its first await
\* of a request (or to its end)
Execute(c) ==
    /\ CanInvoke(c)
    /\ \E i \in Invocations :
         LET rec == Invoke(c, i)
             b == FetchTagBegin(tagsCache, i.tagName)
         IN IF b.await
            THEN /\ Settle(c, Request(rec, "fetchTag", "GET"))
                 /\ invalidated' = [invalidated EXCEPT ![i.tagName] = FALSE]
            ELSE /\ Settle(c, AfterFetchTag(rec, b.value))
                 /\ UNCHANGED invalidated
    /\ invoked' = invoked + 1
    /\ UNCHANGED <<server, settingsStore, tagsCache, startup, others, lastSeen>>
    /\ UNCHANGED <<prompt, chatVars>>

\* execute(args, ctx) for list, up to `await fetchTags(userId)`
ExecuteList(c) ==
    /\ CanInvoke(c)
    /\ \E i \in ListInvocations :
         Settle(c, Request(Invoke(c, i), "fetchTags", "LIST"))
    /\ invoked' = invoked + 1
    /\ UNCHANGED <<server, settingsStore, tagsCache, startup, others, lastSeen,
                   invalidated>>
    /\ UNCHANGED <<prompt, chatVars>>

\* the server answers the request of command c
Deliver(c) ==
    /\ done = IdleCmd
    /\ cmds[c].net = "sent"
    /\ \E a \in Answers(cmds[c].pc, cmds[c].tagName, cmds[c].tagMessage) :
         /\ cmds' = [cmds EXCEPT ![c].net = "answered", ![c].reply = a.reply]
         /\ server' = a.server
    /\ UNCHANGED <<settingsStore, tagsCache, done, startup, invoked, others,
                   lastSeen, invalidated>>
    /\ UNCHANGED <<prompt, chatVars>>

\* command c resumes on the answer to its request
Resume(c) ==
    /\ done = IdleCmd
    /\ cmds[c].net = "answered"
    /\ LET rec == cmds[c]
           n == rec.tagName
           ok == rec.reply.status = "ok"
           f == FetchTagEnd(tagsCache, n, rec.reply)
           w == IF rec.pc = "createTag"
                THEN CreateTagEnd(tagsCache, n, rec.reply)
                ELSE DeleteTagEnd(tagsCache, n, rec.reply)
       IN CASE rec.pc = "fetchTag" ->
                 /\ Settle(c, AfterFetchTag(rec, f.value))
                 /\ tagsCache' = f.cache
                 /\ lastSeen' = IF ok THEN [lastSeen EXCEPT ![n] = rec.reply.body]
                                ELSE lastSeen
                 /\ UNCHANGED invalidated
            [] rec.pc = "fetchTags" ->
                 /\ Settle(c, AfterFetchTags(
                                rec, FetchTagsEnd(rec.reply, rec.userId)))
                 /\ UNCHANGED <<tagsCache, lastSeen, invalidated>>
            [] rec.pc \in {"createTag", "deleteTag"} ->
                 /\ Settle(c, AfterWrite(rec, w.result))
                 /\ tagsCache' = w.cache
                 /\ lastSeen' =
                      IF ok /\ rec.reply.body.success
                      THEN [lastSeen EXCEPT ![n] =
                              IF rec.pc = "createTag"
                              THEN Tag(n, rec.tagMessage, CurrentUserId)
                              ELSE Undefined]
                      ELSE lastSeen
                 /\ invalidated' =
                      IF ok /\ rec.reply.body.success
                      THEN [invalidated EXCEPT ![n] = TRUE]
                      ELSE invalidated
    /\ UNCHANGED <<server, settingsStore, startup, invoked, others>>
    /\ UNCHANGED <<prompt, chatVars>>

\* another client of the server creates a tag
OtherCreate ==
    /\ done = IdleCmd
    /\ others < MaxOther
    /\ \E n \in Names, m \in OtherMessages, o \in OtherUsers :
         /\ server[n] = Undefined
         /\ server' = [server EXCEPT ![n] = Tag(n, m, o)]
    /\ others' = others + 1
    /\ UNCHANGED <<settingsStore, tagsCache, cmds, done, startup, invoked, lastSeen,
                   invalidated>>
    /\ UNCHANGED <<prompt, chatVars>>

\* another client of the server deletes a tag
OtherDelete ==
    /\ done = IdleCmd
    /\ others < MaxOther
    /\ \E n \in Names :
         /\ server[n] # Undefined
         /\ server' = [server EXCEPT ![n] = Undefined]
    /\ others' = others + 1
    /\ UNCHANGED <<settingsStore, tagsCache, cmds, done, startup, invoked, lastSeen,
                   invalidated>>
    /\ UNCHANGED <<prompt, chatVars>>

\* the host shows the response of the command that has just finished
Respond ==
    /\ done # IdleCmd
    /\ done' = IdleCmd
    /\ UNCHANGED <<server, settingsStore, tagsCache, cmds, startup, invoked,
                   others, lastSeen, invalidated>>
    /\ UNCHANGED <<prompt, chatVars>>

\* the plugin with the create, delete, show and who sub-commands in use
Next ==
    \/ Start
    \/ DeliverStartup
    \/ ResumeStartup
    \/ \E c \in Slots : Execute(c)
    \/ \E c \in Slots : Deliver(c)
    \/ \E c \in Slots : Resume(c)
    \/ OtherCreate
    \/ OtherDelete
    \/ Respond

Spec == Init /\ [][Next]_vars

\* the plugin with the list sub-command in use
NextList ==
    \/ Start
    \/ \E c \in Slots : ExecuteList(c)
    \/ \E c \in Slots : Deliver(c)
    \/ \E c \in Slots : Resume(c)
    \/ OtherCreate
    \/ OtherDelete
    \/ Respond

SpecList == InitList /\ [][NextList]_vars

\* the plugin with all its tag sub-commands in use
NextTags ==
    \/ Start
    \/ DeliverStartup
    \/ ResumeStartup
    \/ \E c \in Slots : Execute(c)
    \/ \E c \in Slots : ExecuteList(c)
    \/ \E c \in Slots : Deliver(c)
    \/ \E c \in Slots : Resume(c)
    \/ OtherCreate
    \/ OtherDelete
    \/ Respond

SpecTags == Init /\ [][NextTags]_vars

(* ------------------------- the generation client ----------------------- *)
\* A JavaScript string is the record Str(chars), chars a sequence of characters
Str(chars) == [type |-> "string", chars |-> chars]

StartMark == <<"<", "t", "h", "i", "n", "k", ">">>

EndMark == <<"<", "/", "t", "h", "i", "n", "k", ">">>

\* text.indexOf(pat, from): the first index (from 0) at or after from where pat
\* occurs in text, or -1
RECURSIVE IndexOf(_, _, _)
IndexOf(text, pat, from) ==
    IF from + Len(pat) > Len(text) THEN -1
    ELSE IF SubSeq(text, from + 1, from + Len(pat)) = pat THEN from
    ELSE IndexOf(text, pat, from + 1)

\* text.slice(from, to) and text.slice(from), for indexes within the text
Slice(text, from, to) == SubSeq(text, from + 1, to)

SliceFrom(text, from) == SubSeq(text, from + 1, Len(text))

\* trimStr that cuts up to the end marker and keeps the marker
TrimStrKeepsEnd(start, end, text) ==
    LET startIdx == IndexOf(text, start, 0)
        endIdx == IndexOf(text, end, startIdx + Len(start))
    IN IF startIdx = -1 THEN text
       ELSE IF endIdx = -1 THEN text
       ELSE Slice(text, 0, startIdx) \o SliceFrom(text, endIdx)

TrimStr(start, end, text) ==
    LET startIdx == IndexOf(text, start, 0)
        endIdx == IndexOf(text, end, startIdx + Len(start))
    IN IF startIdx = -1 THEN text
       ELSE IF endIdx = -1 THEN text
       ELSE Slice(text, 0, startIdx) \o SliceFrom(text, endIdx + Len(end))

Placeholder == Str(<<"Received malformed response from Ollama.">>)

\* !v for a string or undefined
Falsy(v) == v = Undefined \/ v.chars = <<>>

\* generateWithOllama from the answer to its POST: the value it returns.
\* The body of an ok answer is the JSON's response field, or Undefined
\* when the JSON has none.
GenerateEnd(reply) ==
    IF reply.status # "ok" THEN Undefined
    ELSE IF Falsy(reply.body) THEN Placeholder
    ELSE Str(TrimStr(StartMark, EndMark, reply.body.chars))

\* the texts the generation endpoint answers with: up to MaxPieces of these
Pieces == {<<"A">>, <<"B">>, <<"C">>, <<"<">>, StartMark, EndMark}

RECURSIVE TextsUpTo(_)
TextsUpTo(k) ==
    IF k = 0 THEN {<<>>}
    ELSE LET shorter == TextsUpTo(k - 1)
         IN shorter \cup {t \o p : t \in shorter, p \in Pieces}

Texts == TextsUpTo(MaxPieces)

\* execute case "prompt", up to the await of the request (or to its end)
ExecutePrompt ==
    /\ prompt.pc = "idle"
    /\ \E send \in {"true", "false", "omitted"} :
         prompt' =
           IF settingsStore.ollamaUrl = ""
           THEN [IdlePrompt EXCEPT
                   !.pc = "done", !.send = send,
                   !.out = BotMessage(<<"Failed to generate with Ollama">>,
                                      Ephemeral)]
           ELSE [IdlePrompt EXCEPT !.pc = "generate", !.send = send]
    /\ UNCHANGED <<tagVars, settingsStore, chatVars>>

\* the generation endpoint answers
DeliverOllama ==
    /\ prompt.pc = "generate"
    /\ prompt.reply = NoReply
    /\ \E r \in {[status |-> st] : st \in {"notok", "throw"}}
           \cup {[status |-> "ok", body |-> Undefined]}
           \cup {[status |-> "ok", body |-> Str(t)] : t \in Texts} :
         prompt' = [prompt EXCEPT !.reply = r]
    /\ UNCHANGED <<tagVars, settingsStore, chatVars>>

\* execute case "prompt", from the answer to its end
ResumePrompt ==
    /\ prompt.pc = "generate"
    /\ prompt.reply # NoReply
    /\ LET response == GenerateEnd(prompt.reply)
       IN prompt' = [prompt EXCEPT
            !.pc = "done",
            !.generated = response,
            !.out = IF Falsy(response)
                    THEN BotMessage(<<"Failed to generate with Ollama">>,
                                    Ephemeral)
                    ELSE IF prompt.send = "true"
                    THEN [via |-> "sendMessage", content |-> response.chars,
                          flags |-> 0]
                    ELSE BotMessage(response.chars, Ephemeral)]
    /\ UNCHANGED <<tagVars, settingsStore, chatVars>>

\* the host shows the response of the prompt command
RespondPrompt ==
    /\ prompt.pc = "done"
    /\ prompt' = IdlePrompt
    /\ UNCHANGED <<tagVars, settingsStore, chatVars>>

InitGen ==
    \E srv \in ServerStates({}) : InitWith(srv, GenStores)

\* the plugin with the prompt sub-command in use
NextGen ==
    \/ ExecutePrompt
    \/ DeliverOllama
    \/ ResumePrompt
    \/ RespondPrompt

SpecGen == InitGen /\ [][NextGen]_vars

(* ------------------------- outgoing chat messages ---------------------- *)
\* the literal prefix of the inline trigger
InlinePrefix == <<"g", "t", "!">>

StartsWith(text, prefix) ==
    Len(text) >= Len(prefix) /\ SubSeq(text, 1, Len(prefix)) = prefix

ChatTexts ==
    {InlinePrefix \o <<"a">>, InlinePrefix, <<"h", "i">>, <<"a">>}

\* the listeners the plugin registers for outgoing messages: the plugin object
\* has the keys name, description, authors, settings, start and commands, and
\* start() registers nothing
PreSendListeners == {}

\* the user sends a chat message; the host runs the plugins' listeners for
\* outgoing messages, then sends what they have not cancelled
SendChat ==
    /\ \E text \in ChatTexts :
         outbox' = IF PreSendListeners = {}
                   THEN outbox \cup {[content |-> text, inline |-> inlinePrefix]}
                   ELSE outbox
    /\ UNCHANGED <<tagVars, settingsStore, prompt, inlinePrefix>>

\* the user switches the inline-prefix flag
SetInlinePrefix ==
    /\ inlinePrefix' = ~inlinePrefix
    /\ UNCHANGED <<tagVars, settingsStore, prompt, outbox>>

\* the plugin while the user chats
NextChat ==
    \/ Start
    \/ SendChat
    \/ SetInlinePrefix

SpecChat == Init /\ [][NextChat]_vars

(* ------------------------------ the claims ----------------------------- *)
\* the invocations whose call of fetchTag has returned
PastFetchTag ==
    {r \in {done} \cup {cmds[c] : c \in Slots} :
        r.kind \in TagKinds /\ r.pc \in {"createTag", "deleteTag", "done"}}

\* fetchTag never asks the server and deleteTag is never called: no GET for a
\* tag and no DELETE is ever sent
DeleteNeverSent ==
    \A r \in {done} \cup {cmds[c] : c \in Slots} :
        "GET" \notin r.sent /\ "DELETE" \notin r.sent

\* no create or delete command ever answers that it succeeded
NeverSucceeds ==
    done.pc = "done"
    => done.out.content[1] \notin {"created successfully",
                                    "deleted successfully"}

C4_CreateExisting ==
    \A r \in PastFetchTag :
        (r.kind = "create" /\ (r.hit \/ r.srv0 # Undefined))
        => /\ "POST" \notin r.sent
           /\ r.pc = "done"
           /\ r.out = BotMessage(<<"already exists", r.tagName>>, 0)

C7_FetchTag ==
    \A r \in PastFetchTag :
        /\ r.hit => "GET" \notin r.sent
        /\ ~r.hit => "GET" \in r.sent

\* the places of the server's list that hold a tag of this owner
Owned(body, userId) == {i \in DOMAIN body : body[i].owner_id = userId}

\* lines names the tags at these places of the list, in the list's order,
\* one per line
NamesThem(lines, body, places) ==
    /\ Len(lines) = 2 * Cardinality(places)
    /\ \A k \in 1..Cardinality(places) :
         /\ lines[2 * k] = "\n"
         /\ \E i \in places :
              /\ lines[2 * k - 1] = body[i].name
              /\ Cardinality({j \in places : j < i}) = k - 1

\* C8: the list command answers with the names of exactly the tags of the
\* server's list whose owner_id is the user argument, one per line, and
\* with a requester-only 'no tags found' when there is none or the request
\* failed; it leaves the cache as it was.
C8_ListByOwner ==
    done.kind = "list" =>
        /\ tagsCache = TagsCacheDefault
        /\ done.out.via = "sendBotMessage"
        /\ done.out.flags = Ephemeral
        /\ IF done.reply.status = "ok"
              /\ Owned(done.reply.body, done.userId) # {}
           THEN NamesThem(done.out.content, done.reply.body,
                          Owned(done.reply.body, done.userId))
           ELSE done.out.content = <<"No tags found for", done.userId>>

\* a list of two tags of which the user argument owns one
C8_Witness ==
    /\ done.kind = "list"
    /\ done.reply.status = "ok"
    /\ Len(done.reply.body) = 2
    /\ Cardinality(Owned(done.reply.body, done.userId)) = 1

\* pat occurs in text at index i (from 0)
Occurs(pat, text, i) ==
    /\ i + Len(pat) <= Len(text)
    /\ \A k \in 1..Len(pat) : text[i + k] = pat[k]

Least(S) == CHOOSE i \in S : \A j \in S : i <= j

\* r is text without the first start marker, the first end marker after it
\* and what is between them; r is text when there is no such pair
Trimmed(text, r) ==
    LET starts == {i \in 0..Len(text) : Occurs(StartMark, text, i)}
        first == Least(starts)
        ends == {j \in (first + Len(StartMark))..Len(text) :
                    Occurs(EndMark, text, j)}
        last == Least(ends) + Len(EndMark)
    IN IF starts = {} THEN r = text
       ELSE IF ends = {} THEN r = text
       ELSE /\ Len(r) = first + Len(text) - last
            /\ \A k \in 1..Len(r) :
                 r[k] = IF k <= first THEN text[k] ELSE text[last + k - first]

Example == <<"A">> \o StartMark \o <<"B">> \o EndMark \o <<"C">>

Generated ==
    /\ prompt.pc = "done"
    /\ prompt.reply # NoReply
    /\ prompt.reply.status = "ok"
    /\ ~Falsy(prompt.reply.body)

\* C9: trimStr("<think>", "</think>", text) is text without the first start
\* marker, the first end marker that follows it and everything between them,
\* and is text when the start marker is absent or no end marker follows it;
\* "A<think>B</think>C" gives "AC".
C9_TrimStr ==
    Generated =>
        /\ Trimmed(prompt.reply.body.chars, prompt.generated.chars)
        /\ prompt.reply.body.chars = Example
           => prompt.generated.chars = <<"A", "C">>

C9_Witness ==
    /\ Generated
    /\ prompt.reply.body.chars = Example
    /\ prompt.generated.chars = <<"A", "C">>

\* C10: a message that begins with the prefix, sent while the inline-prefix
\* flag is on, does not reach the normal send.
C10_InlineTrigger ==
    \A m \in outbox : m.inline => ~StartsWith(m.content, InlinePrefix)

\* the response the prompt command owes to the answer it got: an error seen by
\* the requester alone when generation failed, else the text, sent to the chat
\* when send is true and shown to the requester alone otherwise
PromptFailed ==
    settingsStore.ollamaUrl = "" \/ prompt.reply.status # "ok"

GeneratedText ==
    IF Falsy(prompt.reply.body) THEN Placeholder.chars
    ELSE TrimStr(StartMark, EndMark, prompt.reply.body.chars)

PromptOwes ==
    IF PromptFailed
    THEN BotMessage(<<"Failed to generate with Ollama">>, Ephemeral)
    ELSE IF prompt.send = "true"
    THEN [via |-> "sendMessage", content |-> GeneratedText, flags |-> 0]
    ELSE BotMessage(GeneratedText, Ephemeral)

\* C11: a finished prompt command whose generation failed has answered with
\* one error that only the requester sees; one whose generation succeeded has
\* posted the generated text, empty or not, to the chat when send is true and
\* to the requester alone when send is false or omitted
C11_PromptResponse ==
    prompt.pc = "done" => prompt.out = PromptOwes

\* the same, for generated texts that are not empty: this much the code does
PromptResponseOfText ==
    (prompt.pc = "done" /\ (PromptFailed \/ GeneratedText # <<>>))
    => prompt.out = PromptOwes

\* the request of command rec has failed: an exception or a non-success
\* status for a read; an exception or a body that is not a success for a write
RequestFailed(rec) ==
    /\ rec.net = "answered"
    /\ \/ rec.reply.status # "ok"
       \/ rec.pc \in {"createTag", "deleteTag"} /\ ~rec.reply.body.success

WriteResult(rec) ==
    IF rec.pc = "createTag"
    THEN CreateTagEnd(tagsCache, rec.tagName, rec.reply).result
    ELSE DeleteTagEnd(tagsCache, rec.tagName, rec.reply).result

\* what the helper of the failed request returns: absent, the empty list, or
\* a failure result; always is whether the result carries an error text in
\* every case, or in the case of an exception only
HelperFails(rec, always) ==
    CASE rec.pc = "fetchTag" ->
           FetchTagEnd(tagsCache, rec.tagName, rec.reply).value = Undefined
      [] rec.pc = "fetchTags" ->
           FetchTagsEnd(rec.reply, rec.userId) = <<>>
      [] OTHER ->
           LET result == WriteResult(rec) IN
           /\ ~result.success
           /\ (always \/ rec.reply.status # "ok") => "error" \in DOMAIN result
           /\ rec.reply.status = "ok" => result = rec.reply.body

\* the step of command c that takes up its failed request
FailureStep(c, always) ==
    (RequestFailed(cmds[c]) /\ cmds'[c] # cmds[c])
    => /\ HelperFails(cmds[c], always)
       /\ tagsCache' = tagsCache
       /\ ~(cmds'[c].net = "sent" /\ cmds'[c].pc = cmds[c].pc)
       /\ cmds'[c] = IdleCmd
          => /\ done'.pc = "done"
             /\ done'.out # NoOut
             /\ done'.kind \in {"create", "delete"}
                => done'.out.content[2] = ErrorText(WriteResult(cmds[c]))

MissingSettings ==
    {x \in {"server URL"} : settingsStore.serverUrl = ""}
    \cup {x \in {"server key"} : settingsStore.serverKey = ""}

\* C13: once start() is over and before any command is invoked: with the
\* server's URL and key both configured it has finished without an error and
\* the cache holds, under its name, every tag the list request returned; with
\* either of them empty it has sent no request, has shown a notice for each
\* missing setting and has left the cache as it was
C13_Startup ==
    (startup.pc \in {"done", "rejected"} /\ invoked = 0)
    => IF MissingSettings = {}
       THEN /\ startup.pc = "done"
            /\ \A n \in Names :
                   lastSeen[n] # Undefined
                   => tagsCache.entries[n] = lastSeen[n]
       ELSE /\ startup.pc = "done"
            /\ startup.notices = MissingSettings
            /\ lastSeen = NoEntries
            /\ tagsCache = TagsCacheDefault

\* the same for the cases the code gets right: a setting is missing, or the
\* list request failed or returned no tag
StartupWithoutTags ==
    (startup.pc \in {"done", "rejected"} /\ invoked = 0
        /\ (MissingSettings # {} \/ lastSeen = NoEntries))
    => /\ startup.pc = "done"
       /\ startup.notices = MissingSettings
       /\ tagsCache = TagsCacheDefault
====
